---- MODULE Spec2Model ----
(***************************************************************************)
(* A model of rust-blackjack (src/src/main.rs): the Rank and Suit          *)
(* enumerations, Card, the Deck (new, shuffle, draw_card,                  *)
(* number_of_cards), the Player (new, add_card, get_hand_value) and the    *)
(* round played by main (deal, show the hands, declare the winner).        *)
(***************************************************************************)
EXTENDS Integers, Sequences, FiniteSets, TLC

(***************************************************************************)
(* Bounds of the model.                                                    *)
(***************************************************************************)
\* Iterations of the shuffle loop in which the random index is free when the
\* deck is longer than MaxDeck; in the later iterations it is the identity.
MaxRand == 1

\* A deck of at most MaxDeck cards is shuffled with every random index free.
MaxDeck == 2

\* Cards dealt to each participant in the round (main deals two).
MaxHand == 3

\* Calls of draw_card whose result is dropped (the deck holds 52 cards).
\* Dealing is bounded by the deck alone: the 53rd deal panics.
MaxDraws == 54

\* Cards added to the hand that is scored card by card.
MaxScoreHand == 4

(***************************************************************************)
(* Rank, Suit, Card                                                        *)
(***************************************************************************)
\* Rank::iterator: the static array RANK, ACE to KING.
RANK ==
  << "ACE", "TWO", "THREE", "FOUR", "FIVE", "SIX", "SEVEN", "EIGHT", "NINE",
     "TEN", "JACK", "QUEEN", "KING" >>

\* Suit::iterator: the static array SUIT, HEARTS to SPADES.
SUIT == << "HEARTS", "DIAMONDS", "CLUBS", "SPADES" >>

\* Rank::as_number
as_number(rank) ==
  CASE rank = "ACE" -> 1
    [] rank = "TWO" -> 2
    [] rank = "THREE" -> 3
    [] rank = "FOUR" -> 4
    [] rank = "FIVE" -> 5
    [] rank = "SIX" -> 6
    [] rank = "SEVEN" -> 7
    [] rank = "EIGHT" -> 8
    [] rank = "NINE" -> 9
    [] rank = "TEN" -> 10
    [] rank = "JACK" -> 11
    [] rank = "QUEEN" -> 12
    [] rank = "KING" -> 13

\* Card::new
Card_new(rank, suit) == [rank |-> rank, suit |-> suit]

\* Option<Card>
None == << "None" >>

Some(card) == << "Some", card >>

\* The largest value of a u8.
U8_MAX == 255

(***************************************************************************)
(* Deck                                                                    *)
(***************************************************************************)
RECURSIVE PushRanks(_, _, _)
\* The inner loop of Deck::new: for r in Rank::iterator() push Card::new(r, s).
PushRanks(cards, s, r) ==
  IF r > Len(RANK)
    THEN cards
    ELSE PushRanks(Append(cards, Card_new(RANK[r], SUIT[s])), s, r + 1)

RECURSIVE PushSuits(_, _)
\* The outer loop of Deck::new: for s in Suit::iterator().
PushSuits(cards, s) ==
  IF s > Len(SUIT) THEN cards ELSE PushSuits(PushRanks(cards, s, 1), s + 1)

\* Deck::new, rank-major: the loops nested the other way round.
Deck_new_rank_major ==
  [i \in 1..(Len(RANK) * Len(SUIT)) |->
     Card_new(RANK[((i - 1) \div Len(SUIT)) + 1], SUIT[((i - 1) % Len(SUIT)) + 1])]

\* Deck::new
Deck_new == PushSuits(<< >>, 1)

\* slice::swap
swap(cards, i, j) ==
  [k \in 1..Len(cards) |->
     IF k = i THEN cards[j] ELSE IF k = j THEN cards[i] ELSE cards[k]]

\* The indices the random source may return for gen_index(rng, ubound): any
\* of 0..ubound-1 (here 1..ubound) while free, the last one otherwise.
gen_index(ubound, free) == IF free > 0 THEN 1..ubound ELSE {ubound}

RECURSIVE shuffle_from(_, _, _)
\* SliceRandom::shuffle: for i in (1..len).rev() { swap(i, gen_index(rng, i + 1)) },
\* the set of orders it can leave, from iteration i on.
shuffle_from(cards, i, free) ==
  IF i < 2 \/ free <= 0
    THEN {cards}
    ELSE UNION { shuffle_from(swap(cards, i, j), i - 1, free - 1) :
                 j \in gen_index(i, free) }

\* shuffle with the top card taken by choose(): a random card of the deck is
\* copied over the last one.
shuffle_choose(cards) ==
  IF Len(cards) = 0
    THEN {cards}
    ELSE {[cards EXCEPT ![Len(cards)] = cards[j]] : j \in 1..Len(cards)}

\* Deck::shuffle: the orders self.cards.shuffle(&mut thread_rng()) can leave.
shuffle(cards) ==
  shuffle_from(cards, Len(cards),
               IF Len(cards) <= MaxDeck THEN Len(cards) ELSE MaxRand)

\* Vec::pop confused with remove(0): the first card is taken.
pop_front(cards) ==
  IF Len(cards) = 0
    THEN [ret |-> None, cards |-> cards]
    ELSE [ret |-> Some(cards[1]), cards |-> SubSeq(cards, 2, Len(cards))]

\* Vec::pop, as Deck::draw_card calls it: the result and the cards left.
pop(cards) ==
  IF Len(cards) = 0
    THEN [ret |-> None, cards |-> cards]
    ELSE [ret |-> Some(cards[Len(cards)]),
          cards |-> SubSeq(cards, 1, Len(cards) - 1)]

\* draw_card as last().copied(): the card is returned and stays in the deck.
draw_card_peek(cards) ==
  IF Len(cards) = 0
    THEN [ret |-> None, cards |-> cards]
    ELSE [ret |-> Some(cards[Len(cards)]), cards |-> cards]

\* draw_card that refuses the last card of the deck.
draw_card_off_by_one(cards) ==
  IF Len(cards) <= 1 THEN [ret |-> None, cards |-> cards] ELSE pop(cards)

\* Deck::draw_card
draw_card(cards) == pop(cards)

\* Deck::number_of_cards: len().try_into().unwrap() panics above u8::MAX.
number_of_cards(cards) ==
  IF Len(cards) <= U8_MAX
    THEN [panicked |-> FALSE, value |-> Len(cards)]
    ELSE [panicked |-> TRUE, value |-> 0]

(***************************************************************************)
(* Player                                                                  *)
(***************************************************************************)
\* Player::new
Player_new == << >>

\* add_card with `if let Some(c) = card`: an absent card is skipped silently.
add_card_skip(hand, card) ==
  IF card = None
    THEN [panicked |-> FALSE, hand |-> hand]
    ELSE [panicked |-> FALSE, hand |-> Append(hand, card[2])]

\* Player::add_card: self.hand.push(card.unwrap()); unwrap panics on None.
add_card(hand, card) ==
  IF card = None
    THEN [panicked |-> TRUE, hand |-> hand]
    ELSE [panicked |-> FALSE, hand |-> Append(hand, card[2])]

\* The scoring value without the `else if card_value == 1` branch.
card_value_no_ace(card) ==
  LET n == as_number(card.rank) IN IF n >= 10 THEN 10 ELSE n

\* The scoring value of one card in the closure of get_hand_value.
card_value(card) ==
  LET n == as_number(card.rank)
  IN  IF n >= 10 THEN 10 ELSE IF n = 1 THEN 11 ELSE n

\* Whether the closure counts the card as an ace (card_value == 1).
counts_ace(card) ==
  LET n == as_number(card.rank) IN ~(n >= 10) /\ n = 1

RECURSIVE sum_values(_, _, _)
\* The sum of the scoring values of cards lo..hi of the hand (summed by
\* halves: addition is associative, and the evaluation stays shallow).
sum_values(hand, lo, hi) ==
  IF lo > hi
    THEN 0
    ELSE IF lo = hi
           THEN card_value(hand[lo])
           ELSE sum_values(hand, lo, (lo + hi) \div 2)
                  + sum_values(hand, ((lo + hi) \div 2) + 1, hi)

\* The first pass of get_hand_value: self.hand.iter().for_each(closure).
\* `value += card_value` on a u8 leaves the sum modulo 2^8: totals[i] is the
\* accumulator after card i, value its final content, aces the count of
\* aces, overflow whether an addition exceeded u8::MAX (a panic with
\* overflow checks, a wrap without).
for_each(hand) ==
  [value |-> sum_values(hand, 1, Len(hand)) % (U8_MAX + 1),
   aces |-> Cardinality({i \in 1..Len(hand) : counts_ace(hand[i])}),
   overflow |->
     \E i \in 1..Len(hand) :
       (sum_values(hand, 1, i - 1) % (U8_MAX + 1)) + card_value(hand[i]) > U8_MAX,
   totals |-> [i \in 1..Len(hand) |-> sum_values(hand, 1, i) % (U8_MAX + 1)]]

\* The second pass with `if` for `while`: at most one ace is reduced.
reduce_aces_once(value, aces) ==
  IF value > 21 /\ aces > 0 THEN value - 10 ELSE value

RECURSIVE reduce_aces(_, _)
\* The second pass: while value > 21 && aces > 0 { value -= 10; aces -= 1 }.
reduce_aces(value, aces) ==
  IF value > 21 /\ aces > 0 THEN reduce_aces(value - 10, aces - 1) ELSE value

\* Player::get_hand_value under a build ("debug": overflow checks on, the
\* default of the dev profile; "release": wrapping arithmetic).
get_hand_value(hand, b) ==
  LET acc == for_each(hand)
  IN  [panicked |-> acc.overflow /\ b = "debug",
       overflow |-> acc.overflow,
       totals |-> acc.totals,
       value |-> reduce_aces(acc.value, acc.aces)]

\* The two profiles a build of the crate can have.
Builds == {"debug", "release"}

(***************************************************************************)
(* State                                                                   *)
(***************************************************************************)
VARIABLES
  build,       \* the profile the program was built with
  pc,          \* "new", "play", "shown", "done" or "panic"
  deck,        \* deck.cards
  player,      \* player.hand
  dealer,      \* dealer.hand
  ret,         \* the result of the last draw_card call, << >> before the first
  ndraws,      \* calls of draw_card so far
  drawn,       \* the cards those calls returned, in order
  scored,      \* the outcome of the last get_hand_value call(s), << >> if none
  winner       \* the winner main declared, "" before

vars ==
  << build, pc, deck, player, dealer, ret, ndraws, drawn, scored, winner >>

\* main, up to Deck::new: the two players and the deck are constructed.
Init ==
  /\ build \in Builds
  /\ pc = "new"
  /\ deck = Deck_new
  /\ player = Player_new
  /\ dealer = Player_new
  /\ ret = << >>
  /\ ndraws = 0
  /\ drawn = << >>
  /\ scored = << >>
  /\ winner = ""

\* deck.shuffle(): on the fresh deck as main does, or on a short deck.
Shuffle ==
  /\ pc \in {"new", "play"}
  /\ pc = "new" \/ Len(deck) <= MaxDeck
  /\ deck' \in shuffle(deck)
  /\ pc' = "play"
  /\ UNCHANGED << build, player, dealer, ret, ndraws, drawn, scored, winner >>

\* The cards a sequence of draw_card results holds.
drawn_after(r) == IF r = None THEN drawn ELSE Append(drawn, r[2])

\* player.add_card(deck.draw_card()) and dealer.add_card(deck.draw_card())
DealTo(who, limit) ==
  /\ pc \in {"new", "play"}
  /\ Len(IF who = "player" THEN player ELSE dealer) < limit
  /\ LET d == draw_card(deck)
         a == add_card(IF who = "player" THEN player ELSE dealer, d.ret)
     IN  /\ deck' = d.cards
         /\ ret' = d.ret
         /\ ndraws' = ndraws + 1
         /\ drawn' = drawn_after(d.ret)
         /\ pc' = IF a.panicked THEN "panic" ELSE "play"
         /\ player' = IF who = "player" THEN a.hand ELSE player
         /\ dealer' = IF who = "dealer" THEN a.hand ELSE dealer
  /\ scored' = << >>
  /\ UNCHANGED << build, winner >>

\* The condition with >= for >: the dealer also wins a tie.
dealer_wins_or_ties(dv, pv) == dv >= pv

\* The dealer wins: the condition of the if in main.
dealer_wins(dv, pv) == dv > pv

\* main, "Show the hands": the two values are computed and printed.
ShowHands ==
  /\ pc = "play"
  /\ LET dv == get_hand_value(dealer, build)
         pv == get_hand_value(player, build)
     IN  /\ pc' = IF dv.panicked \/ pv.panicked THEN "panic" ELSE "shown"
         /\ scored' = << dv, pv >>
  /\ UNCHANGED << build, deck, player, dealer, ret, ndraws, drawn, winner >>

\* main, "Who has won?": the two values are computed again and compared.
Compare ==
  /\ pc = "shown"
  /\ LET dv == get_hand_value(dealer, build)
         pv == get_hand_value(player, build)
     IN  /\ pc' = IF dv.panicked \/ pv.panicked THEN "panic" ELSE "done"
         /\ winner' = IF dv.panicked \/ pv.panicked
                        THEN winner
                        ELSE IF dealer_wins(dv.value, pv.value)
                               THEN "Dealer" ELSE "Player"
  /\ UNCHANGED << build, deck, player, dealer, ret, ndraws, drawn, scored >>

\* main, "Deal out the hands": the player's cards first, then the dealer's.
DealPlayer == Len(dealer) = 0 /\ DealTo("player", MaxHand)

DealDealer == DealTo("dealer", MaxHand)

\* The round of main, with hands of up to MaxHand cards.
Next == Shuffle \/ DealPlayer \/ DealDealer \/ ShowHands \/ Compare

Spec == Init /\ [][Next]_vars

(***************************************************************************)
(* Dealing the whole deck to one player.                                    *)
(***************************************************************************)
\* player.add_card(deck.draw_card()), as often as the caller likes.
DealAll == DealTo("player", Len(Deck_new) + 1)

\* player.get_hand_value()
Score ==
  /\ pc \in {"new", "play"}
  /\ scored = << >>
  /\ LET pv == get_hand_value(player, build)
     IN  /\ scored' = << pv >>
         /\ pc' = IF pv.panicked THEN "panic" ELSE pc
  /\ UNCHANGED << build, deck, player, dealer, ret, ndraws, drawn, winner >>

NextDeal == Shuffle \/ DealAll

SpecDeal == Init /\ [][NextDeal]_vars

\* The same, the hand scored at any point.
NextLongHand == Shuffle \/ DealAll \/ Score

SpecLongHand == Init /\ [][NextLongHand]_vars

(***************************************************************************)
(* Drawing from the deck without dealing: tests::drawing_card_removes_...  *)
(***************************************************************************)
\* deck.draw_card(); the result is dropped.
DrawCard ==
  /\ pc \in {"new", "play"}
  /\ ndraws < MaxDraws
  /\ LET d == draw_card(deck)
     IN  /\ deck' = d.cards
         /\ ret' = d.ret
         /\ drawn' = drawn_after(d.ret)
  /\ ndraws' = ndraws + 1
  /\ pc' = "play"
  /\ UNCHANGED << build, player, dealer, scored, winner >>

NextDraw == Shuffle \/ DrawCard

SpecDraw == Init /\ [][NextDraw]_vars

(***************************************************************************)
(* Scoring a hand built card by card: tests::adding_card_to_players_hand.  *)
(***************************************************************************)
\* The test constructs a player and no deck.
InitScore ==
  /\ build \in Builds
  /\ pc = "new"
  /\ deck = << >>
  /\ player = Player_new
  /\ dealer = Player_new
  /\ ret = << >>
  /\ ndraws = 0
  /\ drawn = << >>
  /\ scored = << >>
  /\ winner = ""

\* How many cards of the hand have the rank.
count_rank(hand, rank) == Cardinality({i \in 1..Len(hand) : hand[i].rank = rank})

\* The cards the test may add next: any rank the hand holds fewer than four
\* times, in the first suit the hand does not hold it in (one deck has each
\* card once).
next_cards(hand) ==
  {Card_new(RANK[r], SUIT[count_rank(hand, RANK[r]) + 1]) :
     r \in {q \in 1..Len(RANK) : count_rank(hand, RANK[q]) < Len(SUIT)}}

\* player.add_card(Some(Card::new(rank, suit)))
AddCard ==
  /\ pc \in {"new", "play"}
  /\ scored = << >>
  /\ Len(player) < MaxScoreHand
  /\ \E c \in next_cards(player) :
       LET a == add_card(player, Some(c))
       IN  /\ player' = a.hand
           /\ pc' = IF a.panicked THEN "panic" ELSE "play"
  /\ UNCHANGED << build, deck, dealer, ret, ndraws, drawn, scored, winner >>

NextScore == AddCard \/ Score

SpecScore == InitScore /\ [][NextScore]_vars

(***************************************************************************)
(* Properties                                                              *)
(***************************************************************************)
\* The set of elements of a sequence.
Range(seq) == {seq[i] : i \in 1..Len(seq)}

\* How often a card occurs in a sequence of cards.
occurrences(cards, c) == Cardinality({i \in 1..Len(cards) : cards[i] = c})

\* The blackjack value of a rank with the ace counted as 1.
RefLow ==
  [r \in Range(RANK) |->
     CASE r = "ACE" -> 1
       [] r = "TWO" -> 2
       [] r = "THREE" -> 3
       [] r = "FOUR" -> 4
       [] r = "FIVE" -> 5
       [] r = "SIX" -> 6
       [] r = "SEVEN" -> 7
       [] r = "EIGHT" -> 8
       [] r = "NINE" -> 9
       [] OTHER -> 10]

RECURSIVE LowTotal(_, _)
\* The total of the first n cards of a hand with every ace counted as 1.
LowTotal(hand, n) ==
  IF n = 0 THEN 0 ELSE LowTotal(hand, n - 1) + RefLow[hand[n].rank]

\* The largest total not above 21 with each ace counted as 1 or 11; the total
\* with every ace counted as 1 when there is none.
BestTotal(hand) ==
  LET low == LowTotal(hand, Len(hand))
      totals == {low + 10 * k : k \in 0..count_rank(hand, "ACE")}
      fit == {t \in totals : t <= 21}
  IN  IF fit = {} THEN low ELSE CHOOSE t \in fit : \A u \in fit : u <= t

\* What card i of the hand added to the accumulator in the first pass of the
\* get_hand_value call with outcome s.
Contribution(s, i) ==
  (s.totals[i] - (IF i = 1 THEN 0 ELSE s.totals[i - 1]) + U8_MAX + 1) % (U8_MAX + 1)

\* C1: get_hand_value returns the reference blackjack score of the hand: the
\* largest total not exceeding 21 obtainable by counting each ace as 1 or 11
\* (TWO..NINE their face number, TEN/JACK/QUEEN/KING 10), and the total with
\* every ace counted as 1, left above 21, when there is no such total.
C1_HandValue ==
  scored # << >> =>
    /\ ~scored[1].panicked
    /\ ~scored[1].overflow
    /\ scored[1].value = BestTotal(player)

\* C1 witness: four aces are scored 14, three of them reduced.
C1_FourAces ==
  /\ scored # << >>
  /\ Len(player) = 4
  /\ \A i \in 1..4 : player[i].rank = "ACE"
  /\ scored[1].value = 14

\* C2: during a round the deck and the two hands hold 52 cards together, and
\* no card occurs twice among them.
C2_Conservation ==
  /\ Len(deck) + Len(player) + Len(dealer) = 52
  /\ Cardinality(Range(deck \o player \o dealer)) = 52

\* C2 witness: the deal of main, two cards each.
C2_Dealt ==
  /\ Len(player) = 2
  /\ Len(dealer) = 2
  /\ Len(deck) = 48
  /\ ndraws = 4

\* C3: Deck::new returns 52 cards, each (suit, rank) combination once, in
\* suit-major order, the ACE of HEARTS first; number_of_cards is 52.
C3_FreshDeck ==
  pc = "new" =>
    /\ Len(deck) = 52
    /\ number_of_cards(deck) = [panicked |-> FALSE, value |-> 52]
    /\ deck[1] = [rank |-> "ACE", suit |-> "HEARTS"]
    /\ \A s \in 1..4 : \A r \in 1..13 :
         /\ deck[13 * (s - 1) + r] = [rank |-> RANK[r], suit |-> SUIT[s]]
         /\ occurrences(deck, [rank |-> RANK[r], suit |-> SUIT[s]]) = 1

\* C3 witness: the deck main has just constructed.
C3_Constructed ==
  /\ pc = "new"
  /\ ndraws = 0
  /\ deck[52] = [rank |-> "KING", suit |-> "SPADES"]

\* C4: draw_card on a deck of n >= 1 cards returns the last card and leaves
\* the first n-1 in order; number_of_cards is 52 minus the draws that
\* returned a card.
C4_DrawFromEnd ==
  /\ [](number_of_cards(deck) = [panicked |-> FALSE, value |-> 52 - Len(drawn)])
  /\ [][(DrawCard /\ Len(deck) >= 1) =>
          /\ ret' = Some(deck[Len(deck)])
          /\ deck' = SubSeq(deck, 1, Len(deck) - 1)
          /\ drawn' = Append(drawn, deck[Len(deck)])]_vars

\* C4 witness: three cards drawn from a shuffled deck, 49 left.
C4_ThreeDrawn ==
  /\ ndraws = 3
  /\ Len(drawn) = 3
  /\ Len(deck) = 49
  /\ ret = Some(drawn[3])
  /\ drawn[1] # Deck_new[52]

\* C5: the first 52 calls of draw_card return pairwise distinct cards; the
\* 53rd and later calls return None without a panic and leave the deck empty.
C5_Exhaustion ==
  /\ pc # "panic"
  /\ Cardinality(Range(drawn)) = Len(drawn)
  /\ ndraws <= 52 =>
       /\ Len(drawn) = ndraws
       /\ ndraws > 0 => ret = Some(drawn[ndraws])
  /\ ndraws > 52 =>
       /\ Len(drawn) = 52
       /\ ret = None
       /\ deck = << >>

\* C5 witness: the 54th call on a deck that 52 calls emptied.
C5_Drained ==
  /\ ndraws = 54
  /\ ret = None
  /\ deck = << >>
  /\ Len(drawn) = 52

\* Two sequences hold the same cards, each as often.
SameCards(a, b) ==
  /\ Len(a) = Len(b)
  /\ \A c \in Range(a) \cup Range(b) : occurrences(a, c) = occurrences(b, c)

\* Every order of the cards of a sequence.
Orders(cards) ==
  {[i \in 1..Len(cards) |-> cards[p[i]]] : p \in Permutations(1..Len(cards))}

C7_AddCardUnwrap ==
  /\ [][(DealAll /\ deck = << >>) =>
          /\ pc' = "panic"
          /\ ret' = None
          /\ player' = player
          /\ dealer' = dealer]_vars
  /\ [][(DealAll /\ deck # << >>) =>
          /\ pc' = "play"
          /\ player' = Append(player, deck[Len(deck)])]_vars
  /\ [][pc # "panic"]_vars

\* C7 witness: the 53rd deal, from the empty deck, has panicked.
C7_DealtFromEmpty ==
  /\ pc = "panic"
  /\ ret = None
  /\ ndraws = 53
  /\ Len(player) = 52

\* C8: the dealer is declared winner exactly when the dealer's value is
\* strictly greater than the player's; otherwise, ties and busts included,
\* the player is.
C8_Winner ==
  pc = "done" =>
    /\ winner \in {"Dealer", "Player"}
    /\ winner = "Dealer" <=> scored[1].value > scored[2].value

\* C8 witness: both hands are bust with equal values and the player wins.
C8_BustTie ==
  /\ pc = "done"
  /\ scored[1].value > 21
  /\ scored[1].value = scored[2].value
  /\ winner = "Player"

\* C9 as stated: in the first pass every card of rank 2 to 10 and every face
\* card contributes 10, and every ace 11.
C9_TenOrEleven ==
  scored # << >> =>
    \A i \in 1..Len(player) :
      Contribution(scored[1], i) = IF player[i].rank = "ACE" THEN 11 ELSE 10

\* C9 as amended: in the first pass a card of rank TWO to NINE contributes
\* its face number, TEN, JACK, QUEEN and KING contribute 10, an ace 11.
C9_FirstPass ==
  scored # << >> =>
    \A i \in 1..Len(player) :
      Contribution(scored[1], i) =
        IF player[i].rank = "ACE" THEN 11 ELSE RefLow[player[i].rank]

\* C9 witness: FIVE, KING, ACE scored, contributing 5, 10 and 11.
C9_FiveKingAce ==
  /\ scored # << >>
  /\ Len(player) = 3
  /\ player[1].rank = "FIVE"
  /\ player[2].rank = "KING"
  /\ player[3].rank = "ACE"
  /\ scored[1].totals = << 5, 15, 26 >>

\* C10: for every hand dealt from one deck to a single player the running
\* total of get_hand_value stays within its u8 accumulator.
C10_NoOverflow ==
  scored # << >> => ~scored[1].overflow /\ ~scored[1].panicked

====
